---- MODULE Spec2Model ----
(***************************************************************************)
(* node-async-locks: the per-name lock engine (AsyncLock: enter, leave,     *)
(* reduceQueue, executeCallback) and the registry built on it (lock,        *)
(* lockPromise, releaseQueue, setOptions).                                  *)
(*                                                                          *)
(* One step of the model is one synchronous run of JavaScript: an API call  *)
(* made by user code, the firing of a timer, or a promise continuation.     *)
(* User callbacks are the environment: what they do after being invoked is  *)
(* chosen nondeterministically among the calls the API offers them.         *)
(***************************************************************************)
EXTENDS Integers, Sequences, FiniteSets, TLC

\* ------------------------------------------------------------------ bounds
MaxTokens == 3          \* enter calls (tokens created) in one run
MaxExtra == 2           \* calls outside the enter/release protocol in one run:
                        \* setOptions, releaseQueue, and every leave that is not
                        \* the first release of a token whose callback has run

MaxOverflowTokens == 4  \* enter calls in one run of the queue-overflow scenarios

\* --------------------------------------------------------------- constants
NULL == -1              \* ownerTokenId of an unlocked lock
Infinity == 1000        \* defaultOptions.maxQueueSize
Names == {"A", "B"}
Timeouts == {0, 10}     \* 0: the timeout argument is absent (falsy)
NoValue == "none"

defaultOptions == [maxQueueSize |-> Infinity, overflowStrategy |-> "this"]

\* the option objects handed to setOptions
OptionInputs ==
    {[maxQueueSize |-> 1], [maxQueueSize |-> 1, overflowStrategy |-> "first"],
     [maxQueueSize |-> 1, overflowStrategy |-> "last"]}

\* the option objects handed to setOptions in the queue-overflow scenarios
OverflowInputs ==
    {[maxQueueSize |-> m, overflowStrategy |-> st] :
        m \in 0 .. 2, st \in {"this", "first", "last"}}

\* the values passed as the name argument: strings (one of them empty),
\* null or undefined, an object
NameArgs ==
    {[type |-> "string", val |-> "A"], [type |-> "string", val |-> "B"],
     [type |-> "string", val |-> ""], [type |-> "undefined", val |-> ""],
     [type |-> "object", val |-> "{}"]}

\* the values passed as the callback argument, by what typeof gives for them
CallbackArgs == {"function", "undefined", "string"}

NoOutcome == [how |-> "none", val |-> NoValue]

\* how the future of a lockPromise callback may settle
Settlements == {<<"resolved", "ok">>, <<"rejected", "error">>}

VARIABLES
    locks,       \* registry: name -> [queue, ownerTokenId, options]
    tokenId,     \* the next token id
    tokens,      \* id -> [isCanceled, timeoutId, lock, kind]
    timers,      \* ids of the tokens whose timeout timer is armed in the host
    pending,     \* callbacks deferred by executeCallback, in scheduling order
    invoked,     \* id -> number of times the token's callback was called
    calls,       \* the ids of the tokens whose callback was called, in call order
    released,    \* id -> number of leave calls made with the token
    inner,       \* id -> the future returned by a lockPromise callback
    outer,       \* id -> the future returned by lockPromise
    hist,        \* id -> what has happened to the token: via (how its callback
                 \* came to run: granted by enter, granted by leave, drained by
                 \* releaseQueue), fired (its timeout fired), evicted (removed
                 \* by reduceQueue), aborted (canceled by leave with
                 \* abortPending), early (leave was called with it before its
                 \* callback ran), flushed (its callback called releaseQueue)
    nExtra,      \* calls outside the enter/release protocol so far
    outcome      \* how the last lock or lockPromise call whose arguments the
                 \* model draws from NameArgs and CallbackArgs came back:
                 \* returned, threw an error, or returned a rejected future

vars == <<locks, tokenId, tokens, timers, pending, invoked, calls, released,
          inner, outer, hist, nExtra, outcome>>

\* The program state as one value, so that a handler calling another handler
\* (releaseQueue calling callbacks that call leave) composes as functions.
St == [locks |-> locks, tokenId |-> tokenId, tokens |-> tokens,
       timers |-> timers, pending |-> pending, invoked |-> invoked, calls |-> calls,
       released |-> released, inner |-> inner, outer |-> outer, hist |-> hist,
       outcome |-> outcome]

Becomes(s) ==
    /\ locks' = s.locks
    /\ tokenId' = s.tokenId
    /\ tokens' = s.tokens
    /\ timers' = s.timers
    /\ pending' = s.pending
    /\ invoked' = s.invoked
    /\ calls' = s.calls
    /\ released' = s.released
    /\ inner' = s.inner
    /\ outer' = s.outer
    /\ hist' = s.hist
    /\ outcome' = s.outcome

Ids == 0 .. (tokenId - 1)
NoFuture == [st |-> "none", val |-> NoValue]
PendingFuture == [st |-> "pending", val |-> NoValue]
NoHist == [via |-> "none", fired |-> FALSE, evicted |-> FALSE,
           aborted |-> FALSE, early |-> FALSE, flushed |-> FALSE]

\* ---------------------------------------------------------------- AsyncLock
\* a constructor that makes the lock owned from the start
AsyncLockOwned(options) ==
    [queue |-> <<>>, ownerTokenId |-> 0, options |-> options]

\* new AsyncLock(options)
AsyncLock(options) ==
    [queue |-> <<>>, ownerTokenId |-> NULL, options |-> options]

\* _.extend(a, b): the keys of b override those of a
extend(a, b) ==
    [k \in (DOMAIN a) \cup (DOMAIN b) |-> IF k \in DOMAIN b THEN b[k] ELSE a[k]]

\* createToken: the token gets id tokenId++ and is not canceled
createToken(s, n, kind) ==
    [s EXCEPT
        !.tokenId = @ + 1,
        !.tokens = [i \in 0 .. s.tokenId |->
                      IF i = s.tokenId
                      THEN [isCanceled |-> FALSE, timeoutId |-> FALSE,
                            lock |-> n, kind |-> kind]
                      ELSE s.tokens[i]],
        !.invoked = [i \in 0 .. s.tokenId |-> IF i = s.tokenId THEN 0 ELSE s.invoked[i]],
        !.released = [i \in 0 .. s.tokenId |-> IF i = s.tokenId THEN 0 ELSE s.released[i]],
        !.inner = [i \in 0 .. s.tokenId |-> IF i = s.tokenId THEN NoFuture ELSE s.inner[i]],
        !.outer = [i \in 0 .. s.tokenId |->
                      IF i = s.tokenId
                      THEN (IF kind = "promise" THEN PendingFuture ELSE NoFuture)
                      ELSE s.outer[i]],
        !.hist = [i \in 0 .. s.tokenId |-> IF i = s.tokenId THEN NoHist ELSE s.hist[i]]]

\* strategy 'last' with an if in place of the while: at most one token before
\* the newest is removed
reduceLastOnce(queue, result, max) ==
    IF Len(queue) > 0 /\ Len(queue) > max - 1
    THEN [queue |-> SubSeq(queue, 1, Len(queue) - 1),
          result |-> <<queue[Len(queue)]>> \o result]
    ELSE [queue |-> queue, result |-> result]

\* reduceQueue, strategy 'last': pop the newest, pop while longer than
\* maxQueueSize - 1 (unshift into result), push the newest back
RECURSIVE reduceLast(_, _, _)
reduceLast(queue, result, max) ==
    IF Len(queue) > 0 /\ Len(queue) > max - 1
    THEN reduceLast(SubSeq(queue, 1, Len(queue) - 1),
                    <<queue[Len(queue)]>> \o result, max)
    ELSE [queue |-> queue, result |-> result]

\* strategy 'first' removing from the tail: pop while longer than maxQueueSize
RECURSIVE reduceFirstPops(_, _, _)
reduceFirstPops(queue, result, max) ==
    IF Len(queue) > 0 /\ Len(queue) > max
    THEN reduceFirstPops(SubSeq(queue, 1, Len(queue) - 1),
                         <<queue[Len(queue)]>> \o result, max)
    ELSE [queue |-> queue, result |-> result]

\* reduceQueue, strategy 'first': shift while longer than maxQueueSize
RECURSIVE reduceFirst(_, _, _)
reduceFirst(queue, result, max) ==
    IF Len(queue) > 0 /\ Len(queue) > max
    THEN reduceFirst(Tail(queue), Append(result, Head(queue)), max)
    ELSE [queue |-> queue, result |-> result]

\* reduceQueue whose strategy 'this' pops until the queue is within
\* maxQueueSize, in place of popping once
reduceQueueTrims(queue, options) ==
    IF Len(queue) > options.maxQueueSize
    THEN IF options.overflowStrategy = "last"
         THEN LET r == reduceLast(SubSeq(queue, 1, Len(queue) - 1), <<>>,
                                  options.maxQueueSize)
              IN [queue |-> Append(r.queue, queue[Len(queue)]), result |-> r.result]
         ELSE IF options.overflowStrategy = "first"
         THEN reduceFirst(queue, <<>>, options.maxQueueSize)
         ELSE IF Len(queue) > 0 /\ options.overflowStrategy = "this"
         THEN reduceFirstPops(queue, <<>>, options.maxQueueSize)
         ELSE [queue |-> queue, result |-> <<>>]
    ELSE [queue |-> queue, result |-> <<>>]

\* reduceQueue(queue, options): the queue that remains and the removed tokens
reduceQueue(queue, options) ==
    IF Len(queue) > options.maxQueueSize
    THEN IF options.overflowStrategy = "last"
         THEN LET r == reduceLast(SubSeq(queue, 1, Len(queue) - 1), <<>>,
                                  options.maxQueueSize)
              IN [queue |-> Append(r.queue, queue[Len(queue)]), result |-> r.result]
         ELSE IF options.overflowStrategy = "first"
         THEN reduceFirst(queue, <<>>, options.maxQueueSize)
         ELSE IF Len(queue) > 0 /\ options.overflowStrategy = "this"
         THEN [queue |-> SubSeq(queue, 1, Len(queue) - 1),
               result |-> <<queue[Len(queue)]>>]
         ELSE [queue |-> queue, result |-> <<>>]
    ELSE [queue |-> queue, result |-> <<>>]

\* executeCallback that puts the callback ahead of those already deferred
executeCallbackAhead(s, t) == [s EXCEPT !.pending = <<t>> \o @]

\* executeCallback that calls token.callback(token) at once, without setTimeout
executeCallbackInline(s, t) ==
    [s EXCEPT !.invoked[t] = @ + 1, !.calls = Append(@, t)]

\* executeCallback: setTimeout(function () { token.callback(token) }, 0)
executeCallback(s, t) == [s EXCEPT !.pending = Append(@, t)]

\* token.callback(token): the wrapper's callback runs the user's callback; the
\* callback of lockPromise obtains the future the user's callback returns
callback(s, t) ==
    [s EXCEPT !.invoked[t] = @ + 1,
              !.calls = Append(@, t),
              !.inner[t] = IF s.tokens[t].kind = "promise" /\ @.st = "none"
                           THEN PendingFuture ELSE @]

Range(q) == {q[i] : i \in 1 .. Len(q)}

\* the loop over reducedTokens without clearTimeout
cancelReducedKeepsTimer(s, result) ==
    [s EXCEPT
        !.tokens = [i \in DOMAIN s.tokens |->
                      IF i \in Range(result)
                      THEN [s.tokens[i] EXCEPT !.isCanceled = TRUE]
                      ELSE s.tokens[i]],
        !.hist = [i \in DOMAIN s.hist |->
                      IF i \in Range(result)
                      THEN [s.hist[i] EXCEPT !.evicted = TRUE]
                      ELSE s.hist[i]]]

\* enter, the loop over reducedTokens: mark canceled, clear the timer
cancelReduced(s, result) ==
    [s EXCEPT
        !.tokens = [i \in DOMAIN s.tokens |->
                      IF i \in Range(result)
                      THEN [s.tokens[i] EXCEPT !.isCanceled = TRUE]
                      ELSE s.tokens[i]],
        !.timers = @ \ {i \in Range(result) : s.tokens[i].timeoutId},
        !.hist = [i \in DOMAIN s.hist |->
                      IF i \in Range(result)
                      THEN [s.hist[i] EXCEPT !.evicted = TRUE]
                      ELSE s.hist[i]]]

\* enter without the test of ownerTokenId: every entrant is made the owner
enterIgnoresOwner(s, n, kind, timeout) ==
    LET t == s.tokenId
        s1 == createToken(s, n, kind)
    IN executeCallback(
           [s1 EXCEPT !.locks[n].ownerTokenId = t, !.hist[t].via = "enter"], t)

\* enter that defers the callback of a queued token as well
enterRunsWaiter(s, n, kind, timeout) ==
    LET t == s.tokenId
        s1 == createToken(s, n, kind)
    IN IF s1.locks[n].ownerTokenId # NULL
       THEN LET s2 == [s1 EXCEPT
                          !.locks[n].queue = Append(@, t),
                          !.tokens[t].timeoutId = (timeout # 0),
                          !.timers = IF timeout # 0 THEN @ \cup {t} ELSE @]
                r == reduceQueue(s2.locks[n].queue, s2.locks[n].options)
            IN executeCallback(
                   cancelReduced([s2 EXCEPT !.locks[n].queue = r.queue], r.result), t)
       ELSE executeCallback(
                [s1 EXCEPT !.locks[n].ownerTokenId = t,
                           !.hist[t].via = "enter"], t)

\* enter that tests the owner of every lock of the registry, not only its own
enterAnyOwner(s, n, kind, timeout) ==
    LET t == s.tokenId
        s1 == createToken(s, n, kind)
    IN IF \E m \in DOMAIN s1.locks : s1.locks[m].ownerTokenId # NULL
       THEN LET s2 == [s1 EXCEPT
                          !.locks[n].queue = Append(@, t),
                          !.tokens[t].timeoutId = (timeout # 0),
                          !.timers = IF timeout # 0 THEN @ \cup {t} ELSE @]
                r == reduceQueue(s2.locks[n].queue, s2.locks[n].options)
            IN cancelReduced([s2 EXCEPT !.locks[n].queue = r.queue], r.result)
       ELSE executeCallback(
                [s1 EXCEPT !.locks[n].ownerTokenId = t,
                           !.hist[t].via = "enter"], t)

\* AsyncLock.prototype.enter(callback, timeout) on the lock named n
enter(s, n, kind, timeout) ==
    LET t == s.tokenId
        s1 == createToken(s, n, kind)
    IN IF s1.locks[n].ownerTokenId # NULL
       THEN LET s2 == [s1 EXCEPT
                          !.locks[n].queue = Append(@, t),
                          !.tokens[t].timeoutId = (timeout # 0),
                          !.timers = IF timeout # 0 THEN @ \cup {t} ELSE @]
                r == reduceQueue(s2.locks[n].queue, s2.locks[n].options)
            IN cancelReduced([s2 EXCEPT !.locks[n].queue = r.queue], r.result)
       ELSE executeCallback(
                [s1 EXCEPT !.locks[n].ownerTokenId = t,
                           !.hist[t].via = "enter"], t)

\* the loop of leave with pop in place of shift: it serves the newest waiter
RECURSIVE leaveWalkPop(_, _, _)
leaveWalkPop(s, n, abortPending) ==
    IF Len(s.locks[n].queue) = 0 THEN s
    ELSE LET queueToken == s.locks[n].queue[Len(s.locks[n].queue)]
             s1 == [s EXCEPT
                       !.locks[n].queue = SubSeq(@, 1, Len(@) - 1),
                       !.timers = IF s.tokens[queueToken].timeoutId
                                  THEN @ \ {queueToken} ELSE @]
         IN IF s1.tokens[queueToken].isCanceled
            THEN leaveWalkPop(s1, n, abortPending)
            ELSE IF abortPending
            THEN leaveWalkPop([s1 EXCEPT !.tokens[queueToken].isCanceled = TRUE,
                                         !.hist[queueToken].aborted = TRUE],
                              n, abortPending)
            ELSE executeCallback(
                     [s1 EXCEPT !.locks[n].ownerTokenId = queueToken,
                                !.hist[queueToken].via = "leave"], queueToken)

\* the loop of leave with break in place of continue: it stops at the first
\* canceled token
leaveWalkBreaks(s, n, abortPending) ==
    IF Len(s.locks[n].queue) = 0 THEN s
    ELSE LET queueToken == Head(s.locks[n].queue)
             s1 == [s EXCEPT
                       !.locks[n].queue = Tail(@),
                       !.timers = IF s.tokens[queueToken].timeoutId
                                  THEN @ \ {queueToken} ELSE @]
         IN IF s1.tokens[queueToken].isCanceled
            THEN s1
            ELSE IF abortPending
            THEN [s1 EXCEPT !.tokens[queueToken].isCanceled = TRUE,
                            !.hist[queueToken].aborted = TRUE]
            ELSE executeCallback(
                     [s1 EXCEPT !.locks[n].ownerTokenId = queueToken,
                                !.hist[queueToken].via = "leave"], queueToken)

\* the loop of leave without the test of isCanceled
RECURSIVE leaveWalkNoSkip(_, _, _)
leaveWalkNoSkip(s, n, abortPending) ==
    IF Len(s.locks[n].queue) = 0 THEN s
    ELSE LET queueToken == Head(s.locks[n].queue)
             s1 == [s EXCEPT
                       !.locks[n].queue = Tail(@),
                       !.timers = IF s.tokens[queueToken].timeoutId
                                  THEN @ \ {queueToken} ELSE @]
         IN IF abortPending
            THEN leaveWalkNoSkip([s1 EXCEPT !.tokens[queueToken].isCanceled = TRUE,
                                            !.hist[queueToken].aborted = TRUE],
                                 n, abortPending)
            ELSE executeCallback(
                     [s1 EXCEPT !.locks[n].ownerTokenId = queueToken,
                                !.hist[queueToken].via = "leave"], queueToken)

\* the loop of leave that stops after it has canceled one waiter for
\* abortPending
RECURSIVE leaveWalkAbortsOne(_, _, _)
leaveWalkAbortsOne(s, n, abortPending) ==
    IF Len(s.locks[n].queue) = 0 THEN s
    ELSE LET queueToken == Head(s.locks[n].queue)
             s1 == [s EXCEPT
                       !.locks[n].queue = Tail(@),
                       !.timers = IF s.tokens[queueToken].timeoutId
                                  THEN @ \ {queueToken} ELSE @]
         IN IF s1.tokens[queueToken].isCanceled
            THEN leaveWalkAbortsOne(s1, n, abortPending)
            ELSE IF abortPending
            THEN [s1 EXCEPT !.tokens[queueToken].isCanceled = TRUE,
                            !.hist[queueToken].aborted = TRUE]
            ELSE executeCallback(
                     [s1 EXCEPT !.locks[n].ownerTokenId = queueToken,
                                !.hist[queueToken].via = "leave"], queueToken)

\* the loop of leave that is not entered at all when abortPending is true: the
\* lock is unlocked and the waiters stay queued
RECURSIVE leaveWalkAbortUnlocksOnly(_, _, _)
leaveWalkAbortUnlocksOnly(s, n, abortPending) ==
    IF Len(s.locks[n].queue) = 0 \/ abortPending THEN s
    ELSE LET queueToken == Head(s.locks[n].queue)
             s1 == [s EXCEPT
                       !.locks[n].queue = Tail(@),
                       !.timers = IF s.tokens[queueToken].timeoutId
                                  THEN @ \ {queueToken} ELSE @]
         IN IF s1.tokens[queueToken].isCanceled
            THEN leaveWalkAbortUnlocksOnly(s1, n, abortPending)
            ELSE executeCallback(
                     [s1 EXCEPT !.locks[n].ownerTokenId = queueToken,
                                !.hist[queueToken].via = "leave"], queueToken)

\* leave, the while loop over the queue
RECURSIVE leaveWalk(_, _, _)
leaveWalk(s, n, abortPending) ==
    IF Len(s.locks[n].queue) = 0 THEN s
    ELSE LET queueToken == Head(s.locks[n].queue)
             s1 == [s EXCEPT
                       !.locks[n].queue = Tail(@),
                       !.timers = IF s.tokens[queueToken].timeoutId
                                  THEN @ \ {queueToken} ELSE @]
         IN IF s1.tokens[queueToken].isCanceled
            THEN leaveWalk(s1, n, abortPending)
            ELSE IF abortPending
            THEN leaveWalk([s1 EXCEPT !.tokens[queueToken].isCanceled = TRUE,
                                      !.hist[queueToken].aborted = TRUE],
                           n, abortPending)
            ELSE executeCallback(
                     [s1 EXCEPT !.locks[n].ownerTokenId = queueToken,
                                !.hist[queueToken].via = "leave"], queueToken)

\* leave that puts the released token back at the end of the queue when the
\* lock has passed to a waiter
leaveRequeues(s, t, abortPending) ==
    LET n == s.tokens[t].lock
        s2 == leaveWalk([s EXCEPT !.locks[n].ownerTokenId = NULL,
                                  !.released[t] = @ + 1,
                                  !.hist[t].early = @ \/ s.invoked[t] = 0],
                        n, abortPending)
    IN IF s2.locks[n].ownerTokenId \notin {NULL, t} /\ t \notin Range(s2.locks[n].queue)
       THEN [s2 EXCEPT !.locks[n].queue = Append(@, t)]
       ELSE s2

\* AsyncLock.prototype.leave(token, abortPending) on the token's lock
leave(s, t, abortPending) ==
    LET n == s.tokens[t].lock
    IN leaveWalk([s EXCEPT !.locks[n].ownerTokenId = NULL,
                           !.released[t] = @ + 1,
                           !.hist[t].early = @ \/ s.invoked[t] = 0],
                 n, abortPending)

\* ----------------------------------------------------------------- registry
\* if (!locks[name]) locks[name] = new AsyncLock()
ensureLock(s, n) ==
    IF n \in DOMAIN s.locks THEN s
    ELSE [s EXCEPT !.locks = [m \in (DOMAIN s.locks) \cup {n} |->
                                 IF m = n THEN AsyncLock(defaultOptions)
                                 ELSE s.locks[m]]]

\* what a callback invoked by releaseQueue does before it returns
SyncActs == {"none", "release", "enter"}

\* the loop of releaseQueue calling nothing: the spliced tokens are dropped
drainDrops(s, n, queues, acts) == s

\* releaseQueue, the for loop: queues[i].callback(queues[i]) in order; the
\* callback of lock may call its release function or lock again before it
\* returns, the callback of lockPromise releases in a later continuation
RECURSIVE drain(_, _, _, _)
drain(s, n, queues, acts) ==
    IF Len(queues) = 0 THEN s
    ELSE LET t == Head(queues)
             s1 == callback([s EXCEPT !.hist[t].via = "drain"], t)
             s2 == IF acts[t] = "release" THEN leave(s1, t, FALSE)
                   ELSE IF acts[t] = "enter" THEN enter(s1, n, "lock", 0)
                   ELSE s1
         IN drain(s2, n, Tail(queues), acts)

\* releaseQueue that also clears the owner, as a release would
releaseQueueUnlocks(s, n, acts) ==
    IF n \notin DOMAIN s.locks THEN s
    ELSE drain([s EXCEPT !.locks[n].queue = <<>>,
                         !.locks[n].ownerTokenId = NULL],
               n, s.locks[n].queue, acts)

\* releaseQueue that calls the callbacks of the queued tokens without
\* splicing them out of the queue
releaseQueueKeepsQueue(s, n, acts) ==
    IF n \notin DOMAIN s.locks THEN s
    ELSE drain(s, n, s.locks[n].queue, acts)

\* releaseQueue(name): splice the whole queue, then call every callback
releaseQueue(s, n, acts) ==
    IF n \notin DOMAIN s.locks THEN s
    ELSE drain([s EXCEPT !.locks[n].queue = <<>>], n, s.locks[n].queue, acts)

\* !name || typeof name !== 'string'
badName(name) ==
    \/ name.type = "undefined"
    \/ name.type = "string" /\ name.val = ""
    \/ name.type # "string"

\* _.isFunction(callback)
isFunction(callbackArg) == callbackArg = "function"

\* lock that validates after it has created the AsyncLock of the name
lockCreatesFirst(s, name, callbackArg, timeout) ==
    IF badName(name)
    THEN [s EXCEPT !.outcome = [how |-> "thrown",
                               val |-> "The name must be a non empty string"]]
    ELSE IF ~isFunction(callbackArg)
    THEN [ensureLock(s, name.val) EXCEPT
             !.outcome = [how |-> "thrown", val |-> "Callback must be a function"]]
    ELSE [enter(ensureLock(s, name.val), name.val, "lock", timeout)
             EXCEPT !.outcome = [how |-> "returned", val |-> NoValue]]

\* lock(name, callback, timeout)
lock(s, name, callbackArg, timeout) ==
    IF badName(name)
    THEN [s EXCEPT !.outcome = [how |-> "thrown",
                               val |-> "The name must be a non empty string"]]
    ELSE IF ~isFunction(callbackArg)
    THEN [s EXCEPT !.outcome = [how |-> "thrown",
                               val |-> "Callback must be a function"]]
    ELSE [enter(ensureLock(s, name.val), name.val, "lock", timeout)
             EXCEPT !.outcome = [how |-> "returned", val |-> NoValue]]

\* lockPromise(name, callback): the future it returns is rejected at once for
\* bad arguments, and is the outer future of the new token otherwise
lockPromise(s, name, callbackArg) ==
    IF badName(name)
    THEN [s EXCEPT !.outcome = [how |-> "rejected",
                               val |-> "The name must be a non empty string"]]
    ELSE IF ~isFunction(callbackArg)
    THEN [s EXCEPT !.outcome = [how |-> "rejected",
                               val |-> "Callback must be a function"]]
    ELSE [enter(ensureLock(s, name.val), name.val, "promise", 0)
             EXCEPT !.outcome = [how |-> "pending", val |-> NoValue]]

\* lockExists(name)
lockExists(lks, n) == n \in DOMAIN lks

\* isLocked(name): null when the name has no lock
isLocked(lks, n) ==
    IF lockExists(lks, n) THEN lks[n].ownerTokenId # NULL ELSE NULL

\* queueSize(name): null when the name has no lock
queueSize(lks, n) ==
    IF lockExists(lks, n) THEN Len(lks[n].queue) ELSE NULL

\* ------------------------------------------------------------------ actions
Init ==
    /\ locks = <<>>
    /\ tokenId = 0
    /\ tokens = <<>>
    /\ timers = {}
    /\ pending = <<>>
    /\ invoked = <<>>
    /\ calls = <<>>
    /\ released = <<>>
    /\ inner = <<>>
    /\ outer = <<>>
    /\ hist = <<>>
    /\ nExtra = 0
    /\ outcome = NoOutcome

\* lock(name, callback, timeout) with valid arguments
Lock(n, timeout) ==
    /\ tokenId < MaxTokens
    /\ Becomes(enter(ensureLock(St, n), n, "lock", timeout))
    /\ UNCHANGED nExtra

\* lockPromise(name, callback) with valid arguments
LockPromise(n) ==
    /\ tokenId < MaxTokens
    /\ Becomes(enter(ensureLock(St, n), n, "promise", 0))
    /\ UNCHANGED nExtra

\* the timer armed by enter fires
TimeoutFire(t) ==
    /\ t \in timers
    /\ Becomes([St EXCEPT !.tokens[t].isCanceled = TRUE,
                          !.tokens[t].timeoutId = FALSE,
                          !.timers = @ \ {t},
                          !.hist[t].fired = TRUE])
    /\ UNCHANGED nExtra

\* the host runs the oldest callback deferred by executeCallback
RunCallback ==
    /\ Len(pending) > 0
    /\ Becomes(callback([St EXCEPT !.pending = Tail(@)], Head(pending)))
    /\ UNCHANGED nExtra

\* the first release of a token whose callback has run, without abortPending:
\* the call the wrapper's release function is meant for
Proper(s, t, abortPending) ==
    s.invoked[t] > 0 /\ s.released[t] = 0 /\ ~abortPending

\* lock.leave(token, abortPending): the release function the wrapper hands
\* to a callback of lock, or a direct call with a token enter returned
Leave(t, abortPending) ==
    /\ t \in Ids
    /\ tokens[t].kind = "lock"
    /\ Proper(St, t, abortPending) \/ nExtra < MaxExtra
    /\ Becomes(leave(St, t, abortPending))
    /\ nExtra' = IF Proper(St, t, abortPending) THEN nExtra ELSE nExtra + 1

\* lock, the release function handed to the callback: lock.leave(token)
Release(t) ==
    /\ t \in Ids
    /\ invoked[t] > 0
    /\ Leave(t, FALSE)

\* the future returned by a lockPromise callback settles
Settle(t, st, v) ==
    /\ t \in Ids
    /\ inner[t].st = "pending"
    /\ Becomes([St EXCEPT !.inner[t] = [st |-> st, val |-> v]])
    /\ UNCHANGED nExtra

\* the continuations of lockPromise without lock.leave(token) after reject
settledKeepsLockOnReject(s, t) ==
    IF s.inner[t].st = "rejected"
    THEN [s EXCEPT !.outer[t] = s.inner[t]]
    ELSE leave([s EXCEPT !.outer[t] = s.inner[t]], t, FALSE)

\* lockPromise, the continuation attached with then: resolve(successData) or
\* reject(failData), then lock.leave(token)
settled(s, t) ==
    leave([s EXCEPT !.outer[t] = s.inner[t]], t, FALSE)

Handler(t) ==
    /\ t \in Ids
    /\ inner[t].st \in {"resolved", "rejected"}
    /\ outer[t].st = "pending"
    /\ Becomes(settled(St, t))
    /\ UNCHANGED nExtra

\* the choices of what the drained callbacks do synchronously
ActsFor(s, n) ==
    LET q == IF n \in DOMAIN s.locks THEN s.locks[n].queue ELSE <<>>
    IN {a \in [Range(q) -> SyncActs] :
          /\ \A t \in Range(q) :
                /\ a[t] # "none" => s.tokens[t].kind = "lock"
                /\ a[t] = "release" => s.released[t] = 0
          /\ s.tokenId + Cardinality({t \in Range(q) : a[t] = "enter"}) <= MaxTokens}

\* releaseQueue(name) with a valid name
ReleaseQueue(n) ==
    \E acts \in ActsFor(St, n) :
        /\ nExtra < MaxExtra
        /\ Becomes(releaseQueue(St, n, acts))
        /\ nExtra' = IF releaseQueue(St, n, acts) = St THEN nExtra ELSE nExtra + 1

\* setOptions(name, options)
setOptions(s, n, options) ==
    IF n \in DOMAIN s.locks
    THEN [s EXCEPT !.locks[n].options = extend(@, options)]
    ELSE [s EXCEPT !.locks = [m \in (DOMAIN s.locks) \cup {n} |->
                                 IF m = n
                                 THEN AsyncLock(extend(defaultOptions, options))
                                 ELSE s.locks[m]]]

SetOptions(n, options) ==
    /\ nExtra < MaxExtra
    /\ Becomes(setOptions(St, n, options))
    /\ nExtra' = IF setOptions(St, n, options) = St THEN nExtra ELSE nExtra + 1

\* the lock engine under lock, release, releaseQueue, setOptions and timeouts
Next ==
    \/ \E timeout \in Timeouts : Lock("A", timeout)
    \/ \E t \in Ids : TimeoutFire(t)
    \/ RunCallback
    \/ \E t \in Ids, abortPending \in BOOLEAN : Leave(t, abortPending)
    \/ ReleaseQueue("A")
    \/ \E o \in OptionInputs : SetOptions("A", o)

Spec == Init /\ [][Next]_vars

\* lock and lockPromise on one name, with the default options
PromiseNext ==
    \/ \E timeout \in Timeouts : Lock("A", timeout)
    \/ LockPromise("A")
    \/ \E t \in Ids : TimeoutFire(t)
    \/ RunCallback
    \/ \E t \in Ids : Release(t)
    \/ \E t \in Ids, o \in Settlements : Settle(t, o[1], o[2])
    \/ \E t \in Ids : Handler(t)
    \/ ReleaseQueue("A")

PromiseSpec == Init /\ [][PromiseNext]_vars

\* the first release of a token whose callback has run
ProperRelease(t) ==
    /\ t \in Ids
    /\ Proper(St, t, FALSE)
    /\ Leave(t, FALSE)

\* lock, timeouts and setOptions when every callback releases once, after it
\* was called
LiveNext ==
    \/ \E timeout \in Timeouts : Lock("A", timeout)
    \/ \E t \in Ids : TimeoutFire(t)
    \/ RunCallback
    \/ \E t \in Ids : ProperRelease(t)
    \/ \E o \in OptionInputs : SetOptions("A", o)

\* the host runs every deferred callback, and every callback that was called
\* calls its release function
LiveSpec ==
    /\ Init /\ [][LiveNext]_vars
    /\ WF_vars(RunCallback)
    /\ \A t \in 0 .. (MaxTokens - 1) : WF_vars(ProperRelease(t))

\* the callback of the lockPromise token t calls releaseQueue on its name,
\* while its future is pending; the callbacks this calls start their work and
\* return
Flush(t) ==
    /\ t \in Ids
    /\ tokens[t].kind = "promise"
    /\ inner[t].st = "pending"
    /\ ~hist[t].flushed
    /\ LET n == tokens[t].lock
           acts == [u \in Range(locks[n].queue) |-> "none"]
       IN Becomes([releaseQueue(St, n, acts) EXCEPT !.hist[t].flushed = TRUE])
    /\ UNCHANGED nExtra

\* the future of a callback that has called releaseQueue settles
SettleFlushed(t) ==
    /\ t \in Ids
    /\ hist[t].flushed
    /\ \E o \in Settlements : Settle(t, o[1], o[2])

\* lockPromise calls on one name whose callbacks all call releaseQueue
\* before their future settles
BulkNext ==
    \/ LockPromise("A")
    \/ RunCallback
    \/ \E t \in Ids : Flush(t)
    \/ \E t \in Ids : SettleFlushed(t)
    \/ \E t \in Ids : Handler(t)

\* the host runs every deferred callback and every continuation, and every
\* callback that was called calls releaseQueue and then settles its future
BulkSpec ==
    /\ Init /\ [][BulkNext]_vars
    /\ WF_vars(RunCallback)
    /\ \A t \in 0 .. (MaxTokens - 1) :
          WF_vars(Flush(t)) /\ WF_vars(SettleFlushed(t)) /\ WF_vars(Handler(t))

\* lock(name, callback) without a timeout, in the queue-overflow scenarios
OverflowLock(n) ==
    /\ tokenId < MaxOverflowTokens
    /\ Becomes(enter(ensureLock(St, n), n, "lock", 0))
    /\ UNCHANGED nExtra

\* lock on one name whose options setOptions changes between the calls, every
\* callback releasing once after it was called
OverflowNext ==
    \/ OverflowLock("A")
    \/ RunCallback
    \/ \E t \in Ids : ProperRelease(t)
    \/ \E o \in OverflowInputs : SetOptions("A", o)

OverflowSpec == Init /\ [][OverflowNext]_vars

\* lock(name, callback, timeout) with any arguments
LockCall(name, callbackArg, timeout) ==
    /\ (~badName(name) /\ isFunction(callbackArg)) => tokenId < MaxTokens
    /\ Becomes(lock(St, name, callbackArg, timeout))
    /\ UNCHANGED nExtra

\* lockPromise(name, callback) with any arguments
LockPromiseCall(name, callbackArg) ==
    /\ (~badName(name) /\ isFunction(callbackArg)) => tokenId < MaxTokens
    /\ Becomes(lockPromise(St, name, callbackArg))
    /\ UNCHANGED nExtra

\* lock and lockPromise called with good and bad arguments; the callbacks of
\* lock release once, the futures of the lockPromise callbacks stay pending
ArgsNext ==
    \/ \E name \in NameArgs, callbackArg \in CallbackArgs :
          LockCall(name, callbackArg, 0)
    \/ \E name \in NameArgs, callbackArg \in CallbackArgs :
          LockPromiseCall(name, callbackArg)
    \/ RunCallback
    \/ \E t \in Ids : ProperRelease(t)

ArgsSpec == Init /\ [][ArgsNext]_vars

\* the locks of two names created by setOptions or by the first lock or
\* lockPromise call; the callbacks of lock release once
CreateNext ==
    \/ \E n \in Names : Lock(n, 0)
    \/ \E n \in Names : LockPromise(n)
    \/ RunCallback
    \/ \E t \in Ids : ProperRelease(t)
    \/ \E n \in Names, o \in OptionInputs : SetOptions(n, o)

CreateSpec == Init /\ [][CreateNext]_vars

\* lock (every call with a timeout), release, releaseQueue, setOptions and
\* timeouts on two names
NamesNext ==
    \/ \E n \in Names : Lock(n, 10)
    \/ \E t \in Ids : TimeoutFire(t)
    \/ RunCallback
    \/ \E t \in Ids : ProperRelease(t)
    \/ \E n \in Names : ReleaseQueue(n)
    \/ \E n \in Names : SetOptions(n, [maxQueueSize |-> 1])

NamesSpec == Init /\ [][NamesNext]_vars

\* ------------------------------------------------------------------- claims
TokensOf(n) == {t \in Ids : tokens[t].lock = n}
InQueue(t) == t \in Range(locks[tokens[t].lock].queue)
\* the callback of t has been called and has not called leave yet
Running(t) == invoked[t] > 0 /\ released[t] = 0
Granted(t) == hist[t].via \in {"enter", "leave"}
Drained(t) == hist[t].via = "drain"

\* releaseQueue has drained no token, and leave was called with each token at
\* most once and not before its callback ran
ProperUse ==
    \A t \in Ids : ~Drained(t) /\ released[t] <= 1 /\ ~hist[t].early

\* C1: under proper use (no releaseQueue, each callback releases at most once
\* and only after it was called) at most one callback of a lock name is
\* between its call and its release
C1_MutualExclusion ==
    ProperUse =>
        \A n \in DOMAIN locks :
            Cardinality({t \in TokensOf(n) : Running(t)}) <= 1

\* C1 witness: one callback has released, a later one is running, a third waits
C1_Witness ==
    /\ ProperUse
    /\ \E t, u, w \in Ids :
          /\ tokens[t].kind = "promise" /\ released[t] = 1
          /\ tokens[u].kind = "lock" /\ Running(u)
          /\ InQueue(w) /\ ~tokens[w].isCanceled

\* the oldest token of the queue q that is not canceled, NULL when there is none
FirstLive(q) ==
    LET live == {i \in 1 .. Len(q) : ~tokens[q[i]].isCanceled}
    IN IF live = {} THEN NULL
       ELSE q[CHOOSE i \in live : \A j \in live : i <= j]

\* this step is one call of leave with token t (not a releaseQueue, whose
\* callbacks may call leave too)
LeaveStep(t) ==
    /\ tokenId' = tokenId
    /\ released'[t] = released[t] + 1
    /\ \A u \in Ids : hist'[u].via = "drain" => hist[u].via = "drain"

\* this step marks a waiter canceled because leave was called with abortPending
AbortsWaiter == \E u \in Ids : hist'[u].aborted /\ ~hist[u].aborted

\* this step makes g the owner of its lock
GrantStep(g) ==
    /\ g \in 0 .. (tokenId' - 1)
    /\ hist'[g].via \in {"enter", "leave"}
    /\ g \in Ids => hist[g].via = "none"

\* C2 as stated: every leave makes the oldest non-canceled token of the queue
\* the owner, or leaves the lock unlocked when there is none
C2_EveryLeaveHandsOff ==
    [][\A t \in Ids :
          LeaveStep(t) =>
              locks'[tokens[t].lock].ownerTokenId =
                  FirstLive(locks[tokens[t].lock].queue)]_vars

\* C2 amended: a leave that does not abort the waiters hands the lock to the
\* oldest non-canceled token of the queue (unlocked when there is none), a
\* leave with abortPending leaves it unlocked; and tokens become owner in
\* arrival order: when g becomes owner no younger token was owner before, no
\* older token is still queued, and every older token was owner before, is
\* canceled, or was drained by releaseQueue
C2_FifoHandOff ==
    [][/\ \A t \in Ids :
            LeaveStep(t) =>
                locks'[tokens[t].lock].ownerTokenId =
                    IF AbortsWaiter THEN NULL
                    ELSE FirstLive(locks[tokens[t].lock].queue)
       /\ \A g \in 0 .. (tokenId' - 1) :
            GrantStep(g) =>
                \A u \in Ids \ {g} :
                    tokens[u].lock = tokens'[g].lock =>
                        /\ Granted(u) => u < g
                        /\ u < g => u \notin Range(locks'[tokens[u].lock].queue)
                        /\ u < g => \/ Granted(u)
                                    \/ tokens'[u].isCanceled
                                    \/ hist'[u].via = "drain"]_vars

\* C2 witness: a leave has skipped a canceled waiter and made the next token
\* the owner, after two earlier owners
C2_Witness ==
    \E t, u, g \in Ids :
        /\ t < u /\ u < g
        /\ hist[t].via = "enter" /\ released[t] = 1
        /\ tokens[u].isCanceled /\ ~Granted(u) /\ ~InQueue(u)
        /\ hist[g].via = "leave" /\ locks[tokens[g].lock].ownerTokenId = g

\* leave was called with every token that is not canceled
AllReleased == \A t \in Ids : released[t] > 0 \/ tokens[t].isCanceled
Idle ==
    \A n \in DOMAIN locks :
        locks[n].queue = <<>> /\ locks[n].ownerTokenId = NULL

\* C3: when deferred callbacks run and every called callback releases, a
\* queued token is eventually called unless it is canceled, and once every
\* entrant has released the queue is empty and the lock unlocked
C3_WaitersServed ==
    /\ \A t \in 0 .. (MaxTokens - 1) :
          (t \in Ids /\ InQueue(t) /\ ~tokens[t].isCanceled)
              ~> (t \in Ids /\ (tokens[t].isCanceled \/ invoked[t] > 0))
    /\ [](AllReleased => Idle)

\* C3 witness: a token that waited behind a canceled one was called, and
\* every entrant has released
C3_Witness ==
    /\ tokenId = MaxTokens /\ AllReleased /\ Idle
    /\ \E u, t \in Ids :
          /\ u < t /\ hist[u].fired /\ invoked[u] = 0
          /\ hist[t].via = "leave" /\ invoked[t] = 1 /\ released[t] = 1

\* this step holds a call of leave or a releaseQueue that drained a token
LeaveOrFlush ==
    \/ \E x \in Ids : released'[x] # released[x]
    \/ \E x \in Ids : hist'[x].via = "drain" /\ hist[x].via # "drain"

\* this step is one call of lock or lockPromise on a locked lock
EnterLockedStep ==
    /\ tokenId' = tokenId + 1
    /\ ~LeaveOrFlush
    /\ tokens'[tokenId].lock \in DOMAIN locks
    /\ locks[tokens'[tokenId].lock].ownerTokenId # NULL

\* C4: a token entered while the lock is locked is appended to the queue (the
\* queue grows by one when it stays within maxQueueSize) and is neither owner
\* nor deferred nor called; a queued token is not called, and stays queued
\* unless an enter evicts it, in every step that holds no leave and no
\* releaseQueue
C4_WaiterBlocked ==
    /\ [](\A t \in Ids :
            InQueue(t) =>
                /\ invoked[t] = 0
                /\ t \notin Range(pending)
                /\ locks[tokens[t].lock].ownerTokenId \notin {t, NULL})
    /\ [][/\ EnterLockedStep =>
               LET n == tokens'[tokenId].lock
               IN /\ invoked'[tokenId] = 0
                  /\ pending' = pending
                  /\ locks'[n].ownerTokenId = locks[n].ownerTokenId
                  /\ Len(locks[n].queue) + 1 <= locks[n].options.maxQueueSize
                        => locks'[n].queue = Append(locks[n].queue, tokenId)
          /\ \A t \in Ids :
               (InQueue(t) /\ ~LeaveOrFlush) =>
                   /\ invoked'[t] = 0
                   /\ t \in Range(locks'[tokens[t].lock].queue)
                        \/ (hist'[t].evicted /\ tokens'[t].isCanceled)]_vars

\* C4 witness: the holder's callback runs and has not released, two tokens
\* entered meanwhile wait uncalled
C4_Witness ==
    /\ "A" \in DOMAIN locks
    /\ locks["A"].ownerTokenId = 0 /\ Running(0)
    /\ locks["A"].queue = <<1, 2>>
    /\ invoked[1] = 0 /\ invoked[2] = 0

\* C5: the owner is never a canceled token and has no armed timer; a token
\* whose timeout fired is never made owner; a leave (without abortPending)
\* makes the oldest non-canceled waiter the owner, clears its timer and defers
\* its callback, whether or not older waiters timed out
C5_CanceledNeverOwns ==
    /\ [](/\ \A n \in DOMAIN locks :
               locks[n].ownerTokenId # NULL =>
                   /\ ~tokens[locks[n].ownerTokenId].isCanceled
                   /\ locks[n].ownerTokenId \notin timers
          /\ \A t \in Ids : hist[t].fired => ~Granted(t))
    /\ [][\A t \in Ids :
             (LeaveStep(t) /\ ~AbortsWaiter
                 /\ FirstLive(locks[tokens[t].lock].queue) # NULL) =>
                 LET g == FirstLive(locks[tokens[t].lock].queue)
                 IN /\ locks'[tokens[t].lock].ownerTokenId = g
                    /\ g \notin timers'
                    /\ ~tokens'[g].isCanceled
                    /\ pending' = Append(pending, g)]_vars

\* C5 witness: the timeout of a waiter fired, the holder released, and the
\* next waiter, entered later with a timeout that had not fired, is the owner
\* and was called; the timed-out waiter was not
C5_Witness ==
    \E u, g \in Ids :
        /\ u < g
        /\ hist[u].fired /\ tokens[u].isCanceled /\ invoked[u] = 0
        /\ tokens[g].timeoutId /\ hist[g].via = "leave"
        /\ locks[tokens[g].lock].ownerTokenId = g /\ invoked[g] = 1

\* C6: the callback of a token whose timeout fired while it was queued is
\* never called, whichever operation walks or drains the queue afterwards
C6_TimedOutNeverCalled ==
    [][\A t \in Ids :
          (hist[t].fired /\ InQueue(t)) => invoked'[t] = invoked[t]]_vars

\* C7 as stated: whatever the operations, once the callback of a later enter
\* on the name has been called, the callback of the enter that found the lock
\* unlocked has been called
C7_FirstEntrantFirst ==
    \A t, u \in Ids :
        (/\ t < u /\ tokens[t].lock = tokens[u].lock
         /\ hist[t].via = "enter" /\ invoked[u] > 0) => invoked[t] > 0

\* C7 amended: the same, except for a later callback that releaseQueue called
C7_FirstEntrantFirstUnlessDrained ==
    \A t, u \in Ids :
        (/\ t < u /\ tokens[t].lock = tokens[u].lock
         /\ hist[t].via = "enter" /\ invoked[u] > 0 /\ ~Drained(u))
            => invoked[t] > 0

\* C7 witness: leave was called with the first entrant's token before its
\* callback ran, so the next entrant was made owner at once; the callbacks
\* were still called in entry order
C7_Witness ==
    /\ tokenId >= 2
    /\ hist[0].via = "enter" /\ hist[0].early
    /\ hist[1].via = "leave"
    /\ calls = <<0, 1>>

\* C8: for a token of lockPromise, leave is not called while the outer future
\* is pending and was called exactly once when it is settled, and the outer
\* future is settled as the callback's future was: resolved with the same
\* value or rejected with the same reason
C8_ReleaseOnceMirror ==
    \A t \in Ids :
        tokens[t].kind = "promise" =>
            /\ invoked[t] <= 1
            /\ outer[t].st = "pending" => released[t] = 0
            /\ outer[t].st # "pending" =>
                   /\ released[t] = 1
                   /\ inner[t].st \in {"resolved", "rejected"}
                   /\ outer[t] = inner[t]

\* C8 witness: one lockPromise resolved with "ok" and one rejected with
\* "error", each released once
C8_Witness ==
    \E t, u \in Ids :
        /\ tokens[t].kind = "promise" /\ tokens[u].kind = "promise"
        /\ outer[t] = [st |-> "resolved", val |-> "ok"] /\ released[t] = 1
        /\ outer[u] = [st |-> "rejected", val |-> "error"] /\ released[u] = 1

\* C9: when every callback of lockPromise calls releaseQueue before its
\* future settles, the outer future of every lockPromise call eventually
\* settles, and the queue ends empty with the lock unlocked
C9_BulkFlushCompletes ==
    /\ \A t \in 0 .. (MaxTokens - 1) :
          (t \in Ids) ~> (t \in Ids /\ outer[t].st \in {"resolved", "rejected"})
    /\ <>[]Idle

\* C9 witness: MaxTokens calls were made while the first held, one
\* releaseQueue called all the waiting callbacks, and all outer futures settled
C9_Witness ==
    /\ tokenId = MaxTokens /\ Idle
    /\ hist[0].via = "enter"
    /\ \A t \in Ids \ {0} : Drained(t)
    /\ \A t \in Ids : hist[t].flushed /\ outer[t].st \in {"resolved", "rejected"}

\* the tokens releaseQueue calls in this step
DrainedNow == {t \in Ids : hist'[t].via = "drain" /\ hist[t].via # "drain"}

\* C10: a releaseQueue removes every token of the queue and calls their
\* callbacks at once, in queue order; when no called callback calls lock or
\* its release function before returning, the owner is as before, the queue
\* is empty and nothing else of the lock changes; for a name without a lock
\* releaseQueue changes nothing
C10_ReleaseQueueFrame ==
    /\ [](\A n \in Names :
            n \notin DOMAIN locks => releaseQueue(St, n, <<>>) = St)
    /\ [][\A t \in DrainedNow :
             LET n == tokens[t].lock
             IN /\ DrainedNow = Range(locks[n].queue)
                /\ calls' = calls \o locks[n].queue
                /\ \A u \in DrainedNow : u \notin Range(locks'[n].queue)
                /\ (tokenId' = tokenId /\ released' = released) =>
                       /\ locks'[n].ownerTokenId = locks[n].ownerTokenId
                       /\ locks'[n].queue = <<>>
                       /\ locks'[n].options = locks[n].options
                       /\ pending' = pending
                       /\ tokens' = tokens]_vars

\* C10 witness: with token 0 the owner, a releaseQueue called the callbacks
\* of the waiting tokens 1 and 2 in that order; 0 is still the owner
C10_Witness ==
    /\ tokenId = 3 /\ \A t \in Ids : released[t] = 0
    /\ locks["A"].ownerTokenId = 0 /\ locks["A"].queue = <<>>
    /\ Drained(1) /\ Drained(2)
    /\ calls = <<1, 2>>

\* the tokens an enter evicts in this step
EvictedNow == {t \in 0 .. (tokenId' - 1) :
                 hist'[t].evicted /\ (t \in Ids => ~hist[t].evicted)}

\* the last k elements of the sequence q
LastOf(q, k) == SubSeq(q, Len(q) - k + 1, Len(q))

\* C11: with strategy "first" and maxQueueSize M >= 0, an enter that makes the
\* queue longer than M leaves exactly the M newest tokens of the extended
\* queue, in their order (so the newest arrival stays when M >= 1), and the
\* tokens it evicts are the older ones, from the front
C11_FirstDropsOldest ==
    [][EnterLockedStep =>
          LET n == tokens'[tokenId].lock
              q == Append(locks[n].queue, tokenId)
              M == locks[n].options.maxQueueSize
          IN (locks[n].options.overflowStrategy = "first" /\ M >= 0
                 /\ Len(q) > M) =>
                 /\ locks'[n].queue = LastOf(q, M)
                 /\ Len(locks'[n].queue) = M
                 /\ M >= 1 => locks'[n].queue[M] = tokenId
                 /\ EvictedNow = Range(SubSeq(q, 1, Len(q) - M))]_vars

\* C11 witness: with "first" and maxQueueSize 1, three enters while token 0
\* holds: the queue holds the newest entrant alone and the one before it was
\* dropped last
C11_Witness ==
    /\ tokenId = 4 /\ "A" \in DOMAIN locks
    /\ locks["A"].options = [maxQueueSize |-> 1, overflowStrategy |-> "first"]
    /\ locks["A"].ownerTokenId = 0
    /\ locks["A"].queue = <<3>>
    /\ hist[1].evicted /\ hist[2].evicted /\ ~hist[3].evicted

\* this step is an enter on a locked lock whose strategy is "last" and whose
\* queue, with the new token, is longer than maxQueueSize
LastOverflowStep ==
    /\ EnterLockedStep
    /\ LET n == tokens'[tokenId].lock
       IN /\ locks[n].options.overflowStrategy = "last"
          /\ locks[n].options.maxQueueSize >= 0
          /\ Len(locks[n].queue) + 1 > locks[n].options.maxQueueSize

\* C12 as stated: with strategy "last" and maxQueueSize M >= 0, an enter that
\* makes the queue longer than M leaves a queue of length M whose last element
\* is the new token and whose front is the front of the old queue
C12_LastKeepsNewest ==
    [][LastOverflowStep =>
          LET n == tokens'[tokenId].lock
              M == locks[n].options.maxQueueSize
          IN /\ Len(locks'[n].queue) = M
             /\ locks'[n].queue =
                    Append(SubSeq(locks[n].queue, 1, M - 1), tokenId)]_vars

\* C12 amended: the same for M >= 1; with M = 0 every token before the new
\* one is removed and the queue is left holding the new token alone. In both
\* cases the evicted tokens are those that were queued right before the new one
C12_LastKeepsNewestFromOne ==
    [][LastOverflowStep =>
          LET n == tokens'[tokenId].lock
              M == locks[n].options.maxQueueSize
              K == IF M >= 1 THEN M ELSE 1
          IN /\ Len(locks'[n].queue) = K
             /\ locks'[n].queue =
                    Append(SubSeq(locks[n].queue, 1, K - 1), tokenId)
             /\ EvictedNow =
                    Range(SubSeq(locks[n].queue, K, Len(locks[n].queue)))]_vars

\* C12 witness: with "last" and maxQueueSize 2, the third enter behind token 0
\* evicted the token queued right before it; the oldest waiter stays in front
C12_Witness ==
    /\ tokenId = 4 /\ "A" \in DOMAIN locks
    /\ locks["A"].options = [maxQueueSize |-> 2, overflowStrategy |-> "last"]
    /\ locks["A"].ownerTokenId = 0
    /\ locks["A"].queue = <<1, 3>>
    /\ hist[2].evicted /\ ~hist[1].evicted /\ ~hist[3].evicted

\* C13: with strategy "this", an enter that makes the queue longer than
\* maxQueueSize evicts the token it has just enqueued and no other, however
\* long the queue is: the queue is as before the enter, and no other token
\* changes
C13_ThisDropsNewcomerOnly ==
    [][EnterLockedStep =>
          LET n == tokens'[tokenId].lock
          IN (/\ locks[n].options.overflowStrategy = "this"
              /\ Len(locks[n].queue) + 1 > locks[n].options.maxQueueSize) =>
                 /\ locks'[n].queue = locks[n].queue
                 /\ EvictedNow = {tokenId}
                 /\ tokens'[tokenId].isCanceled
                 /\ \A u \in Ids : tokens'[u] = tokens[u]]_vars

\* C13 witness: two tokens wait behind token 0, setOptions lowered
\* maxQueueSize to 0, and the next enter was evicted alone: the queue is two
\* over the limit and holds the earlier waiters in order
C13_Witness ==
    /\ tokenId = 4 /\ "A" \in DOMAIN locks
    /\ locks["A"].options = [maxQueueSize |-> 0, overflowStrategy |-> "this"]
    /\ locks["A"].ownerTokenId = 0
    /\ locks["A"].queue = <<1, 2>>
    /\ hist[3].evicted /\ tokens[3].isCanceled
    /\ ~tokens[1].isCanceled /\ ~tokens[2].isCanceled

\* this step is one call of lock or lockPromise (not a releaseQueue whose
\* callbacks call lock)
EnterStep == tokenId' = tokenId + 1 /\ ~LeaveOrFlush

\* C14: a token evicted by the reduction of an enter is not in the queue, is
\* canceled, has no armed timer, is not deferred and its callback is never
\* called, whatever leave and releaseQueue calls follow; and the tokens an
\* enter marks are exactly those it removes from the queue (the new token
\* counted as enqueued)
C14_EvictedNeverRuns ==
    /\ [](\A t \in Ids :
            hist[t].evicted =>
                /\ ~InQueue(t)
                /\ tokens[t].isCanceled
                /\ t \notin timers
                /\ t \notin Range(pending)
                /\ invoked[t] = 0)
    /\ [][EnterStep =>
            LET n == tokens'[tokenId].lock
                before == IF n \in DOMAIN locks
                          THEN Range(locks[n].queue) \cup {tokenId}
                          ELSE {tokenId}
            IN IF n \in DOMAIN locks /\ locks[n].ownerTokenId # NULL
               THEN EvictedNow = before \ Range(locks'[n].queue)
               ELSE EvictedNow = {}]_vars

\* C14 witness: a waiter entered with a timeout was evicted by a later enter,
\* its timer is no longer armed, and the later entrant was made owner by a
\* leave and called; the evicted waiter was not called
C14_Witness ==
    \E e, g \in Ids :
        /\ e < g
        /\ hist[e].evicted /\ tokens[e].timeoutId /\ e \notin timers
        /\ ~hist[e].fired /\ invoked[e] = 0
        /\ hist[g].via = "leave" /\ invoked[g] = 1

\* the state s apart from the outcome of the last call
Effects(s) == [s EXCEPT !.outcome = NoOutcome]

\* C15: in every state, a lock call with a bad name or a callback that is not
\* a function throws and a lockPromise call with the same arguments returns a
\* rejected future, and neither changes anything else: no lock is created,
\* no token is created or queued, every lock is as it was
C15_BadArgumentsNoEffect ==
    \A name \in NameArgs, callbackArg \in CallbackArgs :
        (badName(name) \/ ~isFunction(callbackArg)) =>
            /\ lock(St, name, callbackArg, 0).outcome.how = "thrown"
            /\ lockPromise(St, name, callbackArg).outcome.how = "rejected"
            /\ Effects(lock(St, name, callbackArg, 0)) = Effects(St)
            /\ Effects(lockPromise(St, name, callbackArg)) = Effects(St)

\* C15 witness: while "A" is locked with a waiter and "B" was never used, a
\* lockPromise call with a good name and a bad callback came back rejected
C15_Witness ==
    /\ outcome = [how |-> "rejected", val |-> "Callback must be a function"]
    /\ DOMAIN locks = {"A"}
    /\ locks["A"].ownerTokenId = 0 /\ locks["A"].queue = <<1>>

\* this step creates the lock of the name n
Created(n) == ~lockExists(locks, n) /\ lockExists(locks', n)

\* C16 as stated: right after the step that creates the lock of a name, by
\* setOptions or by the first lock or lockPromise call, isLocked is false
\* and queueSize is 0
C16_NewNameUnlocked ==
    [][\A n \in Names :
          Created(n) =>
              /\ isLocked(locks', n) = FALSE
              /\ queueSize(locks', n) = 0]_vars

\* C16 amended: right after setOptions has created the lock of a name,
\* isLocked is false and queueSize is 0; right after the first lock or
\* lockPromise call on a name, queueSize is 0 and isLocked is true: the
\* caller's token is the owner and its callback is deferred; before the
\* creation both are null
C16_NewNameUnlockedUnlessEntered ==
    [][\A n \in Names :
          Created(n) =>
              /\ isLocked(locks, n) = NULL /\ queueSize(locks, n) = NULL
              /\ queueSize(locks', n) = 0
              /\ IF tokenId' = tokenId
                 THEN isLocked(locks', n) = FALSE
                 ELSE /\ isLocked(locks', n) = TRUE
                      /\ locks'[n].ownerTokenId = tokenId
                      /\ pending' = Append(pending, tokenId)
                      /\ locks'[n].options = defaultOptions]_vars

\* C16 witness: "B" was created by setOptions and is unlocked with an empty
\* queue; "A" was created by the first lockPromise call, whose token owns it
C16_Witness ==
    /\ DOMAIN locks = {"A", "B"}
    /\ tokenId = 1 /\ tokens[0].kind = "promise" /\ invoked[0] = 0
    /\ isLocked(locks, "A") = TRUE /\ queueSize(locks, "A") = 0
    /\ locks["B"].options.maxQueueSize = 1
    /\ isLocked(locks, "B") = FALSE /\ queueSize(locks, "B") = 0

\* what the state s holds apart from the name a: the locks of the other
\* names, their tokens with all that is recorded of them, their armed timers
\* and their deferred and called callbacks
Rest(s, a) ==
    LET others == {t \in 0 .. (s.tokenId - 1) : s.tokens[t].lock # a}
        Other(t) == t \in others
    IN [locks |-> [b \in (DOMAIN s.locks) \ {a} |-> s.locks[b]],
        tokens |-> [t \in others |->
                      <<s.tokens[t], s.invoked[t], s.released[t], s.inner[t],
                        s.outer[t], s.hist[t]>>],
        timers |-> s.timers \cap others,
        pending |-> SelectSeq(s.pending, Other),
        calls |-> SelectSeq(s.calls, Other)]

\* C17: in every state, whatever lock, lockPromise, leave, releaseQueue or
\* setOptions call is made on a name, the locks of the other names (owner,
\* queue, options), their tokens, timers and deferred callbacks stay as they
\* are; an enter on a name is granted at once exactly when that name has no
\* lock yet or its lock is unlocked, whatever the other locks hold; and the
\* firing of a timeout changes nothing of the names other than its token's
C17_NamesIndependent ==
    /\ [](\A a \in Names :
            /\ \A kind \in {"lock", "promise"}, timeout \in Timeouts :
                  LET s2 == enter(ensureLock(St, a), a, kind, timeout)
                  IN /\ Rest(s2, a) = Rest(St, a)
                     /\ (~lockExists(locks, a) \/ locks[a].ownerTokenId = NULL)
                           <=> /\ s2.locks[a].ownerTokenId = tokenId
                               /\ s2.pending = Append(pending, tokenId)
            /\ \A t \in TokensOf(a), abortPending \in BOOLEAN :
                  Rest(leave(St, t, abortPending), a) = Rest(St, a)
            /\ \A acts \in ActsFor(St, a) :
                  Rest(releaseQueue(St, a, acts), a) = Rest(St, a)
            /\ \A o \in OptionInputs :
                  Rest(setOptions(St, a, o), a) = Rest(St, a))
    /\ [][\A t \in Ids :
             (hist'[t].fired /\ ~hist[t].fired) =>
                 Rest(St, tokens[t].lock)' = Rest(St, tokens[t].lock)]_vars

\* C17 witness: the callback of token 0 holds "A" and token 1 waits on "A",
\* its timeout fired, while token 2, the first entrant of "B", was granted at
\* once and its callback runs
C17_Witness ==
    /\ tokenId = 3
    /\ tokens[0].lock = "A" /\ tokens[1].lock = "A" /\ tokens[2].lock = "B"
    /\ Running(0) /\ locks["A"].ownerTokenId = 0
    /\ locks["A"].queue = <<1>> /\ hist[1].fired
    /\ hist[2].via = "enter" /\ locks["B"].ownerTokenId = 2 /\ Running(2)

\* C18: the step in which an enter or a leave makes a token the owner does
\* not call its callback: it leaves the callback deferred and uncalled, and,
\* unless the enter or leave was made by a callback inside a releaseQueue
\* that went on afterwards, it ends with the token as owner; the callback of a
\* token that was made owner is called only by a later step, which is the
\* host running the oldest deferred callback and changes no lock
C18_CallbackDeferred ==
    [][/\ \A g \in 0 .. (tokenId' - 1) :
            GrantStep(g) =>
                /\ invoked'[g] = 0
                /\ g \in Range(pending')
                /\ DrainedNow = {} => locks'[tokens'[g].lock].ownerTokenId = g
       /\ \A t \in 0 .. (tokenId' - 1) :
            (/\ invoked'[t] > (IF t \in Ids THEN invoked[t] ELSE 0)
             /\ hist'[t].via # "drain") =>
                /\ t \in Ids /\ Granted(t)
                /\ pending # <<>> /\ Head(pending) = t
                /\ pending' = Tail(pending)
                /\ locks' = locks]_vars

\* C18 witness: token 0 has released and the leave made token 1 the owner;
\* its callback is deferred and has not been called
C18_Witness ==
    /\ tokenId >= 2
    /\ released[0] = 1 /\ invoked[0] = 1
    /\ hist[1].via = "leave" /\ locks[tokens[1].lock].ownerTokenId = 1
    /\ pending = <<1>> /\ invoked[1] = 0

\* C19: a leave called with a token that is not the owner of its lock, while
\* another token is, leaves that token the owner and makes no waiter the owner
C19_NonOwnerLeaveHarmless ==
    [][\A t \in Ids :
          (LeaveStep(t) /\ locks[tokens[t].lock].ownerTokenId \notin {t, NULL}) =>
              /\ locks'[tokens[t].lock].ownerTokenId =
                     locks[tokens[t].lock].ownerTokenId
              /\ \A g \in Ids : ~GrantStep(g)]_vars

\* t is the owner of its lock
IsOwner(t) == locks[tokens[t].lock].ownerTokenId = t

\* the three states of a token as the specification words them
IsRunning(t) == IsOwner(t)
IsQueued(t) == InQueue(t) /\ ~tokens[t].isCanceled
IsRetired(t) == ~InQueue(t) /\ (released[t] > 0 \/ tokens[t].isCanceled)

\* C20 as stated: every token is in exactly one of the states running,
\* queued (in the queue and not canceled) and retired (not in the queue,
\* released or canceled), and a token that has left the queue is not put back
C20_ThreeStates ==
    /\ [](\A t \in Ids :
            /\ IsRunning(t) \/ IsQueued(t) \/ IsRetired(t)
            /\ ~(IsRunning(t) /\ IsQueued(t))
            /\ ~(IsRunning(t) /\ IsRetired(t))
            /\ ~(IsQueued(t) /\ IsRetired(t)))
    /\ [][\A t \in Ids : ~InQueue(t) => ~InQueue(t)']_vars

\* C20 amended: every token is the owner of its lock, or in its queue (once),
\* or neither, and never two of these; a token in the queue was not called
\* and may be canceled already, by its timeout alone, staying queued until a
\* leave walks past it; the owner is not canceled; a token that is neither
\* was released, canceled or drained by releaseQueue, or lost the ownership to
\* a leave called with another token; under proper use (no releaseQueue, one
\* leave per token, after its callback ran) it was released or canceled; and a
\* token that has left the queue is not put back
C20_TokenStates ==
    /\ [](/\ \A n \in DOMAIN locks :
               \A i, j \in 1 .. Len(locks[n].queue) :
                   locks[n].queue[i] = locks[n].queue[j] => i = j
          /\ \A t \in Ids :
               /\ ~(IsOwner(t) /\ InQueue(t))
               /\ InQueue(t) =>
                      /\ invoked[t] = 0
                      /\ tokens[t].isCanceled => hist[t].fired
               /\ IsOwner(t) => ~tokens[t].isCanceled /\ Granted(t)
               /\ (~IsOwner(t) /\ ~InQueue(t)) =>
                      \/ released[t] > 0
                      \/ tokens[t].isCanceled
                      \/ Drained(t)
                      \/ /\ Granted(t)
                         /\ \E u \in TokensOf(tokens[t].lock) \ {t} :
                               released[u] > 0
               /\ (ProperUse /\ ~IsOwner(t) /\ ~InQueue(t)) =>
                      released[t] > 0 \/ tokens[t].isCanceled)
    /\ [][\A t \in Ids : ~InQueue(t) => ~InQueue(t)']_vars

\* C20 witness: under proper use, token 0 was released and is neither owner
\* nor queued, token 1 was made owner by that leave, and token 2 is in the
\* queue and canceled, its timeout having fired
C20_Witness ==
    /\ tokenId = 3 /\ ProperUse
    /\ released[0] = 1 /\ ~IsOwner(0) /\ ~InQueue(0)
    /\ IsOwner(1) /\ hist[1].via = "leave"
    /\ InQueue(2) /\ tokens[2].isCanceled /\ hist[2].fired

\* C21: in every state, a leave called with abortPending = true, with any
\* token, ends with the queue of the lock empty and the lock unlocked, every
\* token that was queued canceled, without armed timer, uncalled and not
\* deferred, and nothing newly deferred; a token canceled this way stays so;
\* and a token that is out of the queue, uncalled and not deferred is never
\* called, deferred or queued afterwards
C21_AbortPendingDrains ==
    /\ [](/\ \A t \in Ids :
               LET n == tokens[t].lock
                   s2 == leave(St, t, TRUE)
               IN /\ s2.locks[n].queue = <<>>
                  /\ s2.locks[n].ownerTokenId = NULL
                  /\ s2.pending = pending
                  /\ s2.invoked = invoked
                  /\ \A u \in Range(locks[n].queue) :
                        /\ s2.tokens[u].isCanceled
                        /\ u \notin s2.timers
                        /\ s2.invoked[u] = 0
                        /\ u \notin Range(s2.pending)
          /\ \A u \in Ids :
               hist[u].aborted =>
                   /\ tokens[u].isCanceled /\ ~InQueue(u)
                   /\ u \notin timers /\ u \notin Range(pending)
                   /\ invoked[u] = 0)
    /\ [][\A u \in Ids :
             (~InQueue(u) /\ invoked[u] = 0 /\ u \notin Range(pending)) =>
                 /\ invoked'[u] = 0
                 /\ u \notin Range(pending')
                 /\ ~InQueue(u)']_vars

\* C21 witness: behind the owner 0 waited token 1, whose timeout had fired,
\* and token 2 with an armed timer; a leave with abortPending emptied the
\* queue, canceled token 2 and cleared its timer; neither was called
C21_Witness ==
    /\ tokenId = 3 /\ Idle
    /\ hist[1].fired /\ ~hist[1].aborted /\ ~InQueue(1) /\ invoked[1] = 0
    /\ hist[2].aborted /\ tokens[2].isCanceled /\ tokens[2].timeoutId
    /\ 2 \notin timers /\ ~hist[2].fired /\ invoked[2] = 0

\* C22: in every state a lock that is unlocked has an empty queue; so when an
\* enter makes its token the owner at once, no token of that lock was in the
\* queue before the step and none is after it
C22_NoStrandedWaiters ==
    /\ [](\A n \in DOMAIN locks :
            locks[n].ownerTokenId = NULL => locks[n].queue = <<>>)
    /\ [][\A g \in 0 .. (tokenId' - 1) :
             (GrantStep(g) /\ hist'[g].via = "enter") =>
                 LET n == tokens'[g].lock
                 IN /\ n \in DOMAIN locks =>
                          \/ locks[n].queue = <<>>
                          \/ DrainedNow = Range(locks[n].queue)
                    /\ \A u \in Ids :
                          tokens[u].lock = n => u \notin Range(locks'[n].queue)]_vars

\* C22 witness: token 0 released while the only waiter, token 1, was
\* canceled by its timeout: the leave discarded it and left the lock unlocked
\* with an empty queue, and the next enter, token 2, was made owner at once
C22_Witness ==
    /\ tokenId = 3
    /\ released[0] = 1 /\ invoked[0] = 1
    /\ hist[1].fired /\ ~InQueue(1) /\ invoked[1] = 0 /\ ~Drained(1)
    /\ hist[2].via = "enter" /\ IsOwner(2)
    /\ locks[tokens[2].lock].queue = <<>>

\* how many times the token t occurs in the sequence q
Occurrences(q, t) == Cardinality({i \in 1 .. Len(q) : q[i] = t})

\* C23: whatever enter, leave, timeout and releaseQueue steps are taken, the
\* callback of every token was called at most once: it is deferred at most
\* once, a deferred callback was not called yet and its token is not queued,
\* a queued token was neither called nor deferred; the step that defers or
\* calls the callback of a queued token takes the token out of the queue, and
\* a token out of the queue is not put back
C23_CalledAtMostOnce ==
    /\ [](\A t \in Ids :
            /\ invoked[t] <= 1
            /\ Occurrences(calls, t) = invoked[t]
            /\ Occurrences(pending, t) + invoked[t] <= 1
            /\ InQueue(t) => invoked[t] = 0 /\ Occurrences(pending, t) = 0)
    /\ [][\A t \in Ids :
             /\ (/\ InQueue(t)
                 /\ \/ invoked'[t] > invoked[t]
                    \/ Occurrences(pending', t) > Occurrences(pending, t))
                   => ~InQueue(t)'
             /\ ~InQueue(t) => ~InQueue(t)']_vars

\* C23 witness: token 0 was made owner by enter, token 1 by a leave, token 2
\* was called by releaseQueue; leave was called twice with token 0; each
\* callback was called once
C23_Witness ==
    /\ tokenId = 3
    /\ hist[0].via = "enter" /\ hist[1].via = "leave" /\ hist[2].via = "drain"
    /\ released[0] = 2
    /\ \A t \in Ids : invoked[t] = 1

====
